---- MODULE Spec2Model ----
(***************************************************************************)
(* Body-fat tracker backend: the image intake pipeline                     *)
(* (services/image.py, api/uploads.py), the AI response contract           *)
(* (services/analysis.py, schemas.py) and the photo-analysis tool          *)
(* (tools.py) over the relational store (repository.py, database.py).      *)
(***************************************************************************)
EXTENDS Integers, Sequences, FiniteSets, TLC

(***************************************************************************)
(* IEEE-754 binary64 arithmetic on positive values, as CPython performs it *)
(* for int / int, int * float, int(float) and float comparison.  A float   *)
(* is a record [m |-> <<1, l1, l2, l3, l4>>, e |-> exponent]: the 53-bit   *)
(* mantissa is a leading one followed by four 13-bit limbs and the value   *)
(* is mantissa * 2^e.  Every intermediate integer stays below 2^31.        *)
(***************************************************************************)
LimbBits == 52 \div 4

RECURSIVE Pow2(_)
Pow2(n) == IF n = 0 THEN 1 ELSE 2 * Pow2(n - 1)

Limb == Pow2(LimbBits)

\* largest k with b * 2^k <= a   (a >= b >= 1)
RECURSIVE ShiftUp(_, _, _)
ShiftUp(a, b, k) == IF 2 * b <= a THEN ShiftUp(a, 2 * b, k + 1) ELSE k

\* least k with a * 2^k >= b   (1 <= a < b)
RECURSIVE ShiftDown(_, _, _)
ShiftDown(a, b, k) == IF a >= b THEN k ELSE ShiftDown(2 * a, b, k + 1)

\* number of bits of n >= 1
BitLen(n) == ShiftUp(n, 1, 0) + 1

\* mantissa + 1; carry = 1 when the sum is 2^53
IncMant(m) ==
    LET s5 == m[5] + 1
        s4 == m[4] + s5 \div Limb
        s3 == m[3] + s4 \div Limb
        s2 == m[2] + s3 \div Limb
        s1 == m[1] + s2 \div Limb
    IN  [m |-> <<s1 % 2, s2 % Limb, s3 % Limb, s4 % Limb, s5 % Limb>>, carry |-> s1 \div 2]

\* round-half-to-even of a 53-bit mantissa given the discarded part:
\* cmp = -1 below half, 0 exactly half, 1 above half
RoundMant(m, e, cmp) ==
    LET up  == cmp = 1 \/ (cmp = 0 /\ m[5] % 2 = 1)
        inc == IncMant(m)
    IN  IF ~up THEN [m |-> m, e |-> e]
        ELSE IF inc.carry = 0 THEN [m |-> inc.m, e |-> e]
        ELSE [m |-> <<1, 0, 0, 0, 0>>, e |-> e + 1]

\* a / b for positive ints with divisor scale below 2^18: the correctly
\* rounded quotient f, and dir, the sign of (f - a / b)
FDivFull(a, b) ==
    LET up   == a >= b
        k    == IF up THEN ShiftUp(a, b, 0) ELSE ShiftDown(a, b, 0)
        num  == IF up THEN a ELSE a * Pow2(k)
        den  == IF up THEN b * Pow2(k) ELSE b
        top  == IF up THEN k ELSE 0 - k
        r0   == num - den
        l1   == (r0 * Limb) \div den
        r1   == (r0 * Limb) % den
        l2   == (r1 * Limb) \div den
        r2   == (r1 * Limb) % den
        l3   == (r2 * Limb) \div den
        r3   == (r2 * Limb) % den
        l4   == (r3 * Limb) \div den
        r4   == (r3 * Limb) % den
        cmp  == IF r4 = 0 THEN -1
                ELSE IF 2 * r4 > den THEN 1 ELSE IF 2 * r4 = den THEN 0 ELSE -1
        m    == <<1, l1, l2, l3, l4>>
        f    == RoundMant(m, top - 4 * LimbBits, cmp)
    IN  [f |-> f, dir |-> IF r4 = 0 THEN 0 ELSE IF f.m = m /\ f.e = top - 4 * LimbBits THEN -1 ELSE 1]

FDiv(a, b) == FDivFull(a, b).f

\* h * x for an int 1 <= h < 2^17 (exact as a float) and a float x
FMul(h, x) ==
    LET p5 == h * x.m[5]
        p4 == h * x.m[4] + p5 \div Limb
        p3 == h * x.m[3] + p4 \div Limb
        p2 == h * x.m[2] + p3 \div Limb
        p1 == h * x.m[1] + p2 \div Limb
        d2 == p2 % Limb
        d3 == p3 % Limb
        d4 == p4 % Limb
        d5 == p5 % Limb
        s  == BitLen(p1) - 1
        lo == Pow2(s)
        hi == Pow2(LimbBits - s)
        m  == <<p1 \div lo,
                (p1 % lo) * hi + d2 \div lo,
                (d2 % lo) * hi + d3 \div lo,
                (d3 % lo) * hi + d4 \div lo,
                (d4 % lo) * hi + d5 \div lo>>
        dropped == d5 % lo
        cmp == IF s = 0 \/ 2 * dropped < lo THEN -1
               ELSE IF 2 * dropped = lo THEN 0 ELSE 1
    IN  RoundMant(m, x.e + s, cmp)

\* int(x): truncation toward zero, for a positive float below 2^26
FInt(x) ==
    LET k  == 0 - x.e
        a  == k \div LimbBits
        b  == k % LimbBits
        n  == 4 - a
        hi == CASE n <= 0 -> 0
                [] n = 1 -> x.m[1]
                [] n = 2 -> x.m[1] * Limb + x.m[2]
        last == x.m[5 - a]
    IN  IF k > 4 * LimbBits THEN 0
        ELSE hi * Pow2(LimbBits - b) + last \div Pow2(b)

\* x <= y on positive floats
FLe(x, y) ==
    IF x.e # y.e THEN x.e < y.e
    ELSE \/ x.m = y.m
         \/ \E i \in 1..5 : x.m[i] < y.m[i] /\ \A j \in 1..(i - 1) : x.m[j] = y.m[j]

(***************************************************************************)
(* config.py: Settings                                                     *)
(***************************************************************************)
max_upload_size == 10485760
max_image_dimension == 2048

(***************************************************************************)
(* image.py: ImageService._resize_if_needed, on the image's (width,height) *)
(*   new_height = int(height * (max_dim / width))            (landscape)   *)
(*   new_width  = int(width  * (max_dim / height))           (otherwise)   *)
(***************************************************************************)
ScaleEdge(edge, max_dim, longer) == FInt(FMul(edge, FDiv(max_dim, longer)))

\* PIL Image.resize((w, h)) raises ValueError unless both are >= 1
ImageResize(w, h) ==
    IF w >= 1 /\ h >= 1
    THEN [status |-> "ok", width |-> w, height |-> h, resized |-> TRUE]
    ELSE [status |-> "raise", exc |-> "ValueError", width |-> w, height |-> h, resized |-> TRUE]

\* the function with its size test dropped: every image is rescaled
_resize_always(width, height, max_dim) ==
    IF width > height
    THEN ImageResize(max_dim, ScaleEdge(height, max_dim, width))
    ELSE ImageResize(ScaleEdge(width, max_dim, height), max_dim)

_resize_if_needed(width, height, max_dim) ==
    IF width > max_dim \/ height > max_dim
    THEN IF width > height
         THEN ImageResize(max_dim, ScaleEdge(height, max_dim, width))
         ELSE ImageResize(ScaleEdge(width, max_dim, height), max_dim)
    ELSE [status |-> "ok", width |-> width, height |-> height, resized |-> FALSE]

(***************************************************************************)
(* Strings are sequences of one-character strings.                         *)
(***************************************************************************)
LowerLetters == <<"a","b","c","d","e","f","g","h","i","j","k","l","m",
                  "n","o","p","q","r","s","t","u","v","w","x","y","z">>
UpperLetters == <<"A","B","C","D","E","F","G","H","I","J","K","L","M",
                  "N","O","P","Q","R","S","T","U","V","W","X","Y","Z">>
Digits == <<"0","1","2","3","4","5","6","7","8","9">>

IndexIn(c, tab) == IF \E i \in 1..Len(tab) : tab[i] = c
                   THEN CHOOSE i \in 1..Len(tab) : tab[i] = c
                   ELSE 0

\* str.lower(), one character
chr_lower(c) == IF IndexIn(c, UpperLetters) > 0 THEN LowerLetters[IndexIn(c, UpperLetters)] ELSE c

\* str.lower()
str_lower(s) == [i \in 1..Len(s) |-> chr_lower(s[i])]

\* a string of n characters
Text(n) == [i \in 1..n |-> "x"]

(***************************************************************************)
(* models.py: ConfidenceLevel, PhotoQuality (str enums: member |-> value)  *)
(***************************************************************************)
ConfidenceLevel == [LOW |-> <<"l","o","w">>, MEDIUM |-> <<"m","e","d","i","u","m">>,
                    HIGH |-> <<"h","i","g","h">>]
PhotoQuality == [POOR |-> <<"p","o","o","r">>, FAIR |-> <<"f","a","i","r">>,
                 GOOD |-> <<"g","o","o","d">>,
                 EXCELLENT |-> <<"e","x","c","e","l","l","e","n","t">>]

\* Enum(value): the member with that value, or ValueError
EnumLookup(enum, value) ==
    IF \E k \in DOMAIN enum : enum[k] = value
    THEN [exc |-> "none", member |-> CHOOSE k \in DOMAIN enum : enum[k] = value]
    ELSE [exc |-> "ValueError"]

(***************************************************************************)
(* The provider's reply.  A response text is a sequence of tokens: a token *)
(* is one character, [t |-> "chr", c |-> ...], or the text of one complete *)
(* JSON value, [t |-> "json", v |-> value].  A JSON value is               *)
(*   [t |-> "num", n |-> thousandths]   a number literal n / 1000          *)
(*   [t |-> "str", s |-> characters]    [t |-> "null"]    [t |-> "array"]  *)
(*   [t |-> "object", f |-> fields]     a field may be [t |-> "absent"]    *)
(***************************************************************************)
Chr(c) == [t |-> "chr", c |-> c]
Chars(s) == [i \in 1..Len(s) |-> Chr(s[i])]
JsonTok(v) == [t |-> "json", v |-> v]

IsSpace(tok) == tok.t = "chr" /\ tok.c \in {" ", "\n"}

RECURSIVE py_lstrip(_)
py_lstrip(s) == IF Len(s) > 0 /\ IsSpace(s[1]) THEN py_lstrip(Tail(s)) ELSE s

RECURSIVE py_rstrip(_)
py_rstrip(s) == IF Len(s) > 0 /\ IsSpace(s[Len(s)]) THEN py_rstrip(SubSeq(s, 1, Len(s) - 1)) ELSE s

\* str.strip()
py_strip(s) == py_rstrip(py_lstrip(s))

\* str.startswith / str.endswith
startswith(s, p) == Len(s) >= Len(p) /\ SubSeq(s, 1, Len(p)) = p
endswith(s, p) == Len(s) >= Len(p) /\ SubSeq(s, Len(s) - Len(p) + 1, Len(s)) = p

\* the backquote character (U+0060)
BQ == "BQ"

FenceJson == Chars(<<BQ, BQ, BQ, "j", "s", "o", "n">>)
Fence == Chars(<<BQ, BQ, BQ>>)
\* a fence opened with another language name than the lower-case json
FenceTagged == Chars(<<BQ, BQ, BQ, "J", "S", "O", "N">>)

\* analysis.py 196-203: remove markdown code fences
StripFences(response_text) ==
    LET c0 == py_strip(response_text)
        c1 == IF startswith(c0, FenceJson) THEN SubSeq(c0, 8, Len(c0)) ELSE c0
        c2 == IF startswith(c1, Fence) THEN SubSeq(c1, 4, Len(c1)) ELSE c1
        c3 == IF endswith(c2, Fence) THEN SubSeq(c2, 1, Len(c2) - 3) ELSE c2
    IN  py_strip(c3)

\* json.loads: surrounding whitespace is skipped, then exactly one JSON value
json_loads(cleaned) ==
    LET body == py_strip(cleaned)
    IN  IF Len(body) = 1 /\ body[1].t = "json"
        THEN [exc |-> "none", data |-> body[1].v]
        ELSE [exc |-> "JSONDecodeError"]

AllDigits(s) == \A i \in 1..Len(s) : IndexIn(s[i], Digits) > 0

RECURSIVE DecInt(_, _, _)
DecInt(s, i, acc) ==
    IF i > Len(s) THEN acc ELSE DecInt(s, i + 1, 10 * acc + (IndexIn(s[i], Digits) - 1))

\* float(str) for the texts d+ and d+.d{1,3}; any text holding a character
\* that is no digit and no dot is not a number in the inputs used here
StrToFloat(s) ==
    LET dot == IndexIn(".", s)
        ip  == IF dot = 0 THEN s ELSE SubSeq(s, 1, dot - 1)
        fp  == IF dot = 0 THEN <<>> ELSE SubSeq(s, dot + 1, Len(s))
    IN  IF Len(ip) >= 1 /\ AllDigits(ip) /\ AllDigits(fp) /\ (dot = 0 \/ Len(fp) \in 1..3)
        THEN [exc |-> "none", n |-> 1000 * DecInt(ip, 1, 0) + DecInt(fp, 1, 0) * (CASE Len(fp) = 0 -> 1 [] Len(fp) = 1 -> 100 [] Len(fp) = 2 -> 10 [] OTHER -> 1)]
        ELSE [exc |-> "ValueError"]

\* float(x) on a JSON value: the float is kept as its literal n / 1000
py_float(v) ==
    CASE v.t = "num" -> [exc |-> "none", n |-> v.n]
      [] v.t = "str" -> StrToFloat(v.s)
      [] OTHER -> [exc |-> "TypeError"]

\* the float nearest to n / 1000, n > 0
FloatOf(n) == FDiv(n, 1000)

\* 5.0 <= v <= 50.0 on a float
InRange(v) == FLe(FDiv(5, 1), v) /\ FLe(v, FDiv(50, 1))

\* schemas.py 95: Field(..., ge=5.0, le=50.0); 104: 5.0 <= v <= 50.0
InBounds(n) == n > 0 /\ InRange(FloatOf(n))

\* round(v, 1) by truncation instead
py_round1_trunc(n) == n \div 100

\* round(v, 1): the exact value of the float, correctly rounded to one
\* decimal, ties to even; the result is kept in tenths
py_round1(n) ==
    LET base == n \div 100
        rem  == n % 100
        dir  == FDivFull(n, 1000).dir
    IN  IF rem < 50 THEN base
        ELSE IF rem > 50 THEN base + 1
        ELSE IF dir > 0 THEN base + 1
        ELSE IF dir < 0 THEN base
        ELSE IF base % 2 = 0 THEN base ELSE base + 1

\* schemas.py 100-106: AIAnalysisResult.validate_percentage
validate_percentage(n) ==
    IF ~InBounds(n) THEN [exc |-> "ValueError"]
    ELSE [exc |-> "none", v |-> py_round1(n)]

min_length_reasoning == 10

\* schemas.py 93-106: AIAnalysisResult(...), pydantic validation of the four
\* fields; ValidationError is a ValueError
ValidatedModel(pct, confidence, reasoning, photo_quality) ==
    IF pct.exc # "none" THEN [exc |-> "ValueError"]
    ELSE IF reasoning.t # "str" THEN [exc |-> "ValueError"]
    ELSE IF Len(reasoning.s) < min_length_reasoning THEN [exc |-> "ValueError"]
    ELSE [exc |-> "none",
          result |-> [body_fat_percentage |-> pct.v,
                      confidence |-> confidence,
                      reasoning |-> reasoning.s,
                      photo_quality |-> photo_quality]]

\* the percentage field: the Field bounds, then the validator
AIAnalysisResult(n, confidence, reasoning, photo_quality) ==
    ValidatedModel(IF ~InBounds(n) THEN [exc |-> "ValueError"] ELSE validate_percentage(n),
                   confidence, reasoning, photo_quality)

\* data[key] on the decoded JSON value
GetItem(data, key) ==
    IF data.t # "object" THEN [exc |-> "TypeError"]
    ELSE IF data.f[key].t = "absent" THEN [exc |-> "KeyError"]
    ELSE [exc |-> "none", v |-> data.f[key]]

\* Enum(data[key].lower())
EnumField(enum, data, key) ==
    LET item == GetItem(data, key)
    IN  IF item.exc # "none" THEN [exc |-> item.exc]
        ELSE IF item.v.t # "str" THEN [exc |-> "AttributeError"]
        ELSE EnumLookup(enum, str_lower(item.v.s))

\* analysis.py 209-214: the constructor call, arguments evaluated in order
BuildResult(data) ==
    LET pi == GetItem(data, "body_fat_percentage")
        pf == py_float(pi.v)
        cf == EnumField(ConfidenceLevel, data, "confidence")
        ri == GetItem(data, "reasoning")
        qf == EnumField(PhotoQuality, data, "photo_quality")
    IN  IF pi.exc # "none" THEN [exc |-> pi.exc]
        ELSE IF pf.exc # "none" THEN [exc |-> pf.exc]
        ELSE IF cf.exc # "none" THEN [exc |-> cf.exc]
        ELSE IF ri.exc # "none" THEN [exc |-> ri.exc]
        ELSE IF qf.exc # "none" THEN [exc |-> qf.exc]
        ELSE AIAnalysisResult(pf.n, cf.member, ri.v, qf.member)

RawPrefix == 200

Prefix(s, n) == SubSeq(s, 1, IF Len(s) < n THEN Len(s) ELSE n)

\* analysis.py 182-222: AnalysisService._parse_ai_response
\* analysis.py 206-214: json.loads, then the constructor call
LoadAndBuild(js) == IF js.exc # "none" THEN [exc |-> js.exc] ELSE BuildResult(js.data)

\* analysis.py 216-222: the result, or the exceptions the handler catches
\* turned into AIAnalysisError; any other exception passes through
ParseOutcome(r, response_text) ==
    IF r.exc = "none" THEN [status |-> "ok", result |-> r.result]
    ELSE IF r.exc \in {"JSONDecodeError", "KeyError", "ValueError"}
    THEN [status |-> "raise", exc |-> "AIAnalysisError", msg |-> Prefix(response_text, RawPrefix)]
    ELSE [status |-> "raise", exc |-> r.exc]

\* analysis.py 182-222: AnalysisService._parse_ai_response
_parse_ai_response(response_text) ==
    ParseOutcome(LoadAndBuild(json_loads(StripFences(response_text))), response_text)

(***************************************************************************)
(* config.py: allowed_extensions; pathlib: Path(name).suffix               *)
(***************************************************************************)
allowed_extensions == {<<".", "j", "p", "g">>, <<".", "j", "p", "e", "g">>,
                       <<".", "p", "n", "g">>, <<".", "w", "e", "b", "p">>}

\* index of the last occurrence of c in s, 0 when there is none
LastIndexOf(c, s) == IF \E i \in 1..Len(s) : s[i] = c
                     THEN CHOOSE i \in 1..Len(s) : s[i] = c /\ \A j \in (i + 1)..Len(s) : s[j] # c
                     ELSE 0

\* Path(filename).suffix: from the last dot of the final path component,
\* empty when that dot leads or ends the component
PathSuffix(filename) ==
    LET name == SubSeq(filename, LastIndexOf("/", filename) + 1, Len(filename))
        i    == LastIndexOf(".", name)
    IN  IF 1 < i /\ i < Len(name) THEN SubSeq(name, i, Len(name)) ELSE <<>>

\* image.py 102-126 with the extension compared as given (no lower-casing)
_validate_image_nolower(nbytes, filename, decodable) ==
    IF nbytes > max_upload_size THEN [exc |-> "ImageProcessingError", msg |-> "IMAGE_TOO_LARGE"]
    ELSE IF PathSuffix(filename) \notin allowed_extensions
    THEN [exc |-> "ImageProcessingError", msg |-> "INVALID_IMAGE_FORMAT"]
    ELSE IF ~decodable THEN [exc |-> "ImageProcessingError", msg |-> "Invalid or corrupted image file"]
    ELSE [exc |-> "none"]

\* image.py 102-126: ImageService._validate_image; decodable stands for
\* Image.open(...).verify() succeeding on the bytes
_validate_image(nbytes, filename, decodable) ==
    IF nbytes > max_upload_size THEN [exc |-> "ImageProcessingError", msg |-> "IMAGE_TOO_LARGE"]
    ELSE IF str_lower(PathSuffix(filename)) \notin allowed_extensions
    THEN [exc |-> "ImageProcessingError", msg |-> "INVALID_IMAGE_FORMAT"]
    ELSE IF ~decodable THEN [exc |-> "ImageProcessingError", msg |-> "Invalid or corrupted image file"]
    ELSE [exc |-> "none"]

\* the stage with the validation error swallowed
ValidateStage_swallow(nbytes, filename, decodable) == [status |-> "ok"]

\* image.py 56-58, 99-100: the first statement of save_and_process_image and
\* the handler that wraps whatever it raises
ValidateStage(nbytes, filename, decodable) ==
    LET v == _validate_image(nbytes, filename, decodable)
    IN  IF v.exc # "none"
        THEN [status |-> "raise", exc |-> "ImageProcessingError", msg |-> <<"PROCESSING_FAILED", v.msg>>]
        ELSE [status |-> "ok"]

\* image.py 78-80: the extension of the stored file
file_extension(filename) ==
    IF str_lower(PathSuffix(filename)) \in allowed_extensions
    THEN str_lower(PathSuffix(filename))
    ELSE <<".", "j", "p", "g">>

(***************************************************************************)
(* Images.  The picture is NPix blocks, each "raw" (as uploaded) or "blur"; *)
(* a face region (top, right, bottom, left) is one of the blocks.          *)
(***************************************************************************)
NPix == 2
MaxFaces == 2

Cells == 1..NPix
RawPixels == [c \in Cells |-> "raw"]
Regions == Cells

RECURSIVE SeqsUpTo(_, _)
SeqsUpTo(S, n) ==
    IF n = 0 THEN {<<>>}
    ELSE SeqsUpTo(S, n - 1) \cup {Append(q, x) : q \in {r \in SeqsUpTo(S, n - 1) : Len(r) = n - 1}, x \in S}

\* what face_recognition.face_locations may report
FaceLocations == SeqsUpTo(Regions, MaxFaces)

\* image.py 176-184: crop, GaussianBlur, paste back (in place)
BlurPaste(pixels, reg) == [pixels EXCEPT ![reg] = "blur"]

\* bytes of the JPEG encoding of a picture (st_size)
EncodedSize(pixels, width, height) == 1 + Cardinality({c \in Cells : pixels[c] = "raw"})

(***************************************************************************)
(* State.                                                                  *)
(*   rz, pr, va      one call of _resize_if_needed / _parse_ai_response /  *)
(*                   the validation stage of save_and_process_image        *)
(*   an              one call of analyze_body_composition                  *)
(*   users, photos, analyses   the committed rows of the three tables      *)
(*   files           the upload directory: path |-> stored file            *)
(*   provider_calls  the requests sent to the external model, in order     *)
(*   up              the upload request being served by upload_photo       *)
(*   tools           the process_photo_tool invocations                    *)
(*   tool_response   the response process_photo_tool returned last         *)
(***************************************************************************)
VARIABLES rz, pr, va, an, users, photos, analyses, files, provider_calls, up, tools,
          tool_response, uploads_started, now, tool_request

pureVars == <<rz, pr, va, an>>
storeVars == <<users, photos, analyses>>
sysVars == <<users, photos, analyses, files, provider_calls, up, tools, tool_response,
            uploads_started, now, tool_request>>
vars == <<rz, pr, va, an, users, photos, analyses, files, provider_calls, up, tools,
          tool_response, uploads_started, now, tool_request>>

\* uuid.uuid4(): an identifier that none of the given ones equals
uuid4(taken) == IF taken = {} THEN 1 ELSE 1 + CHOOSE m \in taken : \A x \in taken : x <= m

NoOut == [status |-> "none"]
Idle == [pc |-> "idle"]
None == 0

MaxTools == 1
ToolIds == 1..MaxTools

\* no process_photo_tool call has answered yet
NoRequest == [openai_subject |-> "", photo_id |-> None]

\* the system at rest: one registered free-tier user, nothing uploaded
SysIdle ==
    /\ users = [u \in {1} |-> [openai_subject |-> "s1", is_premium |-> FALSE,
                                       last_analysis_at |-> None, total_analyses |-> 0]]
    /\ photos = << >>
    /\ analyses = << >>
    /\ files = << >>
    /\ provider_calls = << >>
    /\ up = Idle
    /\ tools = [i \in ToolIds |-> Idle]
    /\ tool_response = [tool |-> 0, kind |-> "none"]
    /\ uploads_started = 0
    /\ now = 1
    /\ tool_request = NoRequest

(***************************************************************************)
(* _resize_if_needed over bounded image sizes and configured maxima        *)
(***************************************************************************)
SmallDim == 6
SmallMax == 3
SpecialDims == {49, 98, 1122, 1536, 2047, 2049, 2215, 2244, 3000, 4000, 5000}
Dims == (1..SmallDim) \cup SpecialDims \cup {max_image_dimension}
MaxDims == (1..SmallMax) \cup {max_image_dimension}

InitResize ==
    /\ rz \in [pc : {"call"}, width : Dims, height : Dims, max_dim : MaxDims, out : {NoOut}]
    /\ pr = Idle
    /\ va = Idle
    /\ an = Idle
    /\ SysIdle

ResizeIfNeeded ==
    /\ rz.pc = "call"
    /\ rz' = [rz EXCEPT !.pc = "ret",
                        !.out = _resize_if_needed(rz.width, rz.height, rz.max_dim)]
    /\ UNCHANGED <<pr, va, an>>
    /\ UNCHANGED sysVars

NextResize == ResizeIfNeeded

SpecResize == InitResize /\ [][NextResize]_vars

(***************************************************************************)
(* _parse_ai_response over bounded provider replies                        *)
(***************************************************************************)
Num(n) == [t |-> "num", n |-> n]
Str(s) == [t |-> "str", s |-> s]
Null == [t |-> "null"]
Absent == [t |-> "absent"]
Obj(p, c, r, q) == [t |-> "object",
                    f |-> [body_fat_percentage |-> p, confidence |-> c,
                           reasoning |-> r, photo_quality |-> q]]

NearBound == 1
BoundOffsets == (0..NearBound) \cup {49, 50, 51, 100}
PctNums == {b + sg * d : b \in {5000, 50000}, sg \in {-1, 1}, d \in BoundOffsets}
             \cup {18200, 23250, 23450, 23456, 23750}
PctValues == {Num(n) : n \in PctNums}
               \cup {Str(<<"2", "3", ".", "5">>), Str(<<"n", "/", "a">>), Null, Absent}
ConfValues == {Str(<<"H","i","g","h">>), Str(<<"h","i","g","h">>), Str(<<"L","O","W">>),
               Str(<<"M","e","d","i","u","m">>), Str(<<"c","e","r","t","a","i","n">>),
               Null, Absent}
QualValues == {Str(<<"G","o","o","d">>), Str(<<"e","x","c","e","l","l","e","n","t">>),
               Str(<<"P","O","O","R">>), Str(<<"g","r","e","a","t">>), Num(3000)}
ReasonLens == {2, 9, 10, 20}
ReasonValues == {Str(Text(k)) : k \in ReasonLens} \cup {Absent}

Datas == {Obj(p, c, r, q) : p \in PctValues, c \in ConfValues,
                            r \in ReasonValues, q \in QualValues}
           \cup {[t |-> "array"], Null, Num(23500)}

NL == Chr("\n")
Wrappers == {"plain", "json_fence", "bare_fence", "tagged_fence", "prose"}

\* the reply text for a JSON value under a wrapper
Wrap(w, v) ==
    CASE w = "plain"      -> <<JsonTok(v)>>
      [] w = "json_fence" -> FenceJson \o <<NL, JsonTok(v), Chr(" "), NL>> \o Fence
      [] w = "bare_fence" -> Fence \o <<NL, JsonTok(v), NL>> \o Fence \o <<NL>>
      [] w = "tagged_fence" -> FenceTagged \o <<NL, JsonTok(v), NL>> \o Fence
      [] w = "prose"      -> Chars(<<"o", "k", " ">>) \o <<JsonTok(v)>>

InitParse ==
    /\ pr \in {[pc |-> "call", wrap |-> w, data |-> d, response_text |-> Wrap(w, d), out |-> NoOut] :
                   w \in Wrappers, d \in Datas}
    /\ rz = Idle
    /\ va = Idle
    /\ an = Idle
    /\ SysIdle

ParseAiResponse ==
    /\ pr.pc = "call"
    /\ pr' = [pr EXCEPT !.pc = "ret", !.out = _parse_ai_response(pr.response_text)]
    /\ UNCHANGED <<rz, va, an>>
    /\ UNCHANGED sysVars

NextParse == ParseAiResponse

SpecParse == InitParse /\ [][NextParse]_vars

(***************************************************************************)
(* the validation stage over bounded uploads                               *)
(***************************************************************************)
ValidateNames == {<<"a", ".", "P", "N", "G">>, <<"b", ".", "j", "p", "g">>,
                  <<"c", ".", "J", "p", "E", "g">>, <<"d", ".", "w", "e", "b", "p">>,
                  <<"a", ".", "g", "i", "f">>, <<"p", "n", "g">>, <<".", "p", "n", "g">>,
                  <<"a", ".", "p", "n", "g", ".", "e", "x", "e">>, <<"a", ".">>,
                  <<"a", ".", "b", "/", "c">>}
ValidateSizes == {1, max_upload_size, max_upload_size + 1, 2 * max_upload_size}

InitValidate ==
    /\ va \in [pc : {"call"}, nbytes : ValidateSizes, filename : ValidateNames,
               decodable : BOOLEAN, out : {NoOut}]
    /\ rz = Idle
    /\ pr = Idle
    /\ an = Idle
    /\ SysIdle

SaveAndProcessValidate ==
    /\ va.pc = "call"
    /\ va' = [va EXCEPT !.pc = "ret",
                        !.out = ValidateStage(va.nbytes, va.filename, va.decodable)]
    /\ UNCHANGED <<rz, pr, an>>
    /\ UNCHANGED sysVars

NextValidate == SaveAndProcessValidate

SpecValidate == InitValidate /\ [][NextValidate]_vars

(***************************************************************************)
(* uploads.py: upload_photo, with image.py: save_and_process_image.        *)
(* The handler yields once, at `await file.read()`; from there to its      *)
(* response nothing else runs, so an upload starts with the body read and  *)
(* no tool step is taken until it has answered.                            *)
(***************************************************************************)
UploadNames == {<<>>, <<"a", ".", "P", "N", "G">>, <<"a", ".", "g", "i", "f">>}
UploadSizes == {max_upload_size, max_upload_size + 1}
UploadDims == {<<4000, 3000>>, <<5000, 1>>}
UploadImages == {[decodable |-> FALSE, width |-> 0, height |-> 0]}
                  \cup {[decodable |-> TRUE, width |-> d[1], height |-> d[2]] : d \in UploadDims}
\* X-User-Id: the id of a user, or an id that names none
UploadUserIds == {0} \cup DOMAIN users

MaxUploads == 1

UploadBusy == up.pc \notin {"idle", "done", "failed"}

\* uploads.py 58-64: the request arrives, the filename is checked, the body is read
UploadStart ==
    /\ up.pc \in {"idle", "done", "failed"}
    /\ uploads_started < MaxUploads
    /\ \E uid \in UploadUserIds, fn \in UploadNames, nb \in UploadSizes, img \in UploadImages :
         up' = IF fn = <<>>
               THEN [pc |-> "failed",
                     response |-> [code |-> 400, exc |-> "HTTPException", reason |-> <<"No file provided">>]]
               ELSE [pc |-> "read", x_user_id |-> uid, filename |-> fn, nbytes |-> nb,
                     decodable |-> img.decodable, width |-> img.width, height |-> img.height,
                     pixels |-> RawPixels, detector |-> "none", reported |-> {}, nregions |-> 0,
                     faces_detected |-> 0, is_anonymized |-> FALSE, file_path |-> None,
                     file_size |-> 0]
    /\ uploads_started' = uploads_started + 1
    /\ UNCHANGED <<pureVars, storeVars, files, provider_calls, tools, tool_response, now, tool_request>>

\* image.py 99-100 and uploads.py 102-103: whatever save_and_process_image
\* raises is wrapped in ImageProcessingError and answered with status 400
UploadFail(code, exc, reason) ==
    [pc |-> "failed", response |-> [code |-> code, exc |-> exc, reason |-> reason]]

\* image.py 58: _validate_image on the bytes read
UploadValidate ==
    /\ up.pc = "read"
    /\ LET v == ValidateStage(up.nbytes, up.filename, up.decodable)
       IN  up' = IF v.status = "raise" THEN UploadFail(400, v.exc, v.msg)
                 ELSE [up EXCEPT !.pc = "normalize"]
    /\ UNCHANGED <<pureVars, storeVars, files, provider_calls, tools, tool_response, uploads_started, now, tool_request>>

\* image.py 61-71: open, convert to RGB, _resize_if_needed
UploadNormalize ==
    /\ up.pc = "normalize"
    /\ LET r == _resize_if_needed(up.width, up.height, max_image_dimension)
       IN  up' = IF r.status = "raise"
                 THEN UploadFail(400, "ImageProcessingError", <<"PROCESSING_FAILED", r.exc>>)
                 ELSE [up EXCEPT !.pc = "detect", !.width = r.width, !.height = r.height]
    /\ UNCHANGED <<pureVars, storeVars, files, provider_calls, tools, tool_response, uploads_started, now, tool_request>>

\* image.py 174-184: the blur loop over the first k of the reported regions
RECURSIVE BlurFirst(_, _, _)
BlurFirst(pixels, locs, k) ==
    IF k = 0 THEN pixels ELSE BlurPaste(BlurFirst(pixels, locs, k - 1), locs[k])

\* the blocks the detector reported
ReportedCells(locs) == {locs[i] : i \in 1..Len(locs)}

\* _anonymize_faces blurring the whole picture when the detector raises
_anonymize_faces_blur_all(pixels, detector_raises, locs, k) ==
    IF detector_raises THEN [faces_detected |-> 0, pixels |-> [c \in Cells |-> "blur"]]
    ELSE IF locs = <<>> THEN [faces_detected |-> 0, pixels |-> pixels]
    ELSE IF k < Len(locs) THEN [faces_detected |-> 0, pixels |-> BlurFirst(pixels, locs, k)]
    ELSE [faces_detected |-> Len(locs), pixels |-> BlurFirst(pixels, locs, Len(locs))]

\* image.py 153-192: _anonymize_faces.  The detector raises, or reports locs;
\* the loop blurs the regions in order and crop, filter or paste may raise
\* after k of them, the handler then returning 0 with the image as it is
_anonymize_faces(pixels, detector_raises, locs, k) ==
    IF detector_raises THEN [faces_detected |-> 0, pixels |-> pixels]
    ELSE IF locs = <<>> THEN [faces_detected |-> 0, pixels |-> pixels]
    ELSE IF k < Len(locs) THEN [faces_detected |-> 0, pixels |-> BlurFirst(pixels, locs, k)]
    ELSE [faces_detected |-> Len(locs), pixels |-> BlurFirst(pixels, locs, Len(locs))]

\* image.py 73-75: the call of _anonymize_faces; detector and reported record
\* what the detector did for this upload
UploadAnonymize ==
    /\ up.pc = "detect"
    /\ \E detector_raises \in BOOLEAN, locs \in FaceLocations :
         \E k \in 0..Len(locs) :
           /\ detector_raises => (locs = <<>> /\ k = 0)
           /\ LET r == _anonymize_faces(up.pixels, detector_raises, locs, k)
              IN  up' = [up EXCEPT !.pc = "persist",
                                   !.detector = IF detector_raises THEN "raised" ELSE "reported",
                                   !.reported = ReportedCells(locs),
                                   !.nregions = Len(locs),
                                   !.pixels = r.pixels,
                                   !.faces_detected = r.faces_detected,
                                   !.is_anonymized = r.faces_detected > 0]
    /\ UNCHANGED <<pureVars, storeVars, files, provider_calls, tools, tool_response, uploads_started, now, tool_request>>

\* the file name made of the owner and the extension only
NewPath_untokened(fs, owner, filename) ==
    [owner |-> owner, token |-> 1, ext |-> file_extension(filename)]

\* image.py 82-83: f"{user_id}_{uuid.uuid4()}{file_extension}" in the upload
\* directory fs
NewPath(fs, owner, filename) ==
    [owner |-> owner, token |-> uuid4({f.token : f \in DOMAIN fs}),
     ext |-> file_extension(filename)]

\* image.py 86-91: image.save(file_path, format="JPEG"); a file already at
\* that path is replaced
StoredFile(u) == [format |-> "JPEG", pixels |-> u.pixels, width |-> u.width, height |-> u.height]
WriteFile(fs, path, file) ==
    [p \in DOMAIN fs \cup {path} |-> IF p = path THEN file ELSE fs[p]]

\* image.py 75-97: name the file, encode as JPEG, write it, return the tuple
PersistAt(path) ==
    /\ files' = WriteFile(files, path, StoredFile(up))
    /\ up' = [up EXCEPT !.pc = "record", !.file_path = path,
                        !.file_size = EncodedSize(up.pixels, up.width, up.height)]

UploadPersist ==
    /\ up.pc = "persist"
    /\ PersistAt(NewPath(files, up.x_user_id, up.filename))
    /\ UNCHANGED <<pureVars, storeVars, provider_calls, tools, tool_response, uploads_started, now, tool_request>>

\* repository.py 126-156: the Photo row of an upload
PhotoRow(u) ==
    [user_id |-> u.x_user_id, file_path |-> u.file_path,
     original_filename |-> u.filename, file_size |-> u.file_size,
     width |-> u.width, height |-> u.height,
     faces_detected |-> u.faces_detected, is_anonymized |-> u.is_anonymized]

\* uploads.py 76-112: the user lookup, PhotoRepository.create, commit; the
\* insert or the commit may fail
UploadRecord ==
    /\ up.pc = "record"
    /\ \/ /\ up.x_user_id \notin DOMAIN users
          /\ up' = UploadFail(404, "HTTPException", <<"USER_NOT_FOUND">>)
          /\ UNCHANGED photos
       \/ /\ up.x_user_id \in DOMAIN users
          /\ up' = UploadFail(500, "HTTPException", <<"UPLOAD_FAILED", "DATABASE_ERROR">>)
          /\ UNCHANGED photos
       \/ /\ up.x_user_id \in DOMAIN users
          /\ photos' = photos @@ (uuid4(DOMAIN photos) :> PhotoRow(up))
          /\ up' = [pc |-> "done",
                    response |-> [code |-> 200, photo_id |-> uuid4(DOMAIN photos),
                                  filename |-> up.filename, size |-> up.file_size,
                                  faces_detected |-> up.faces_detected,
                                  is_anonymized |-> up.is_anonymized]]
    /\ UNCHANGED <<pureVars, users, analyses, files, provider_calls, tools, tool_response, uploads_started, now, tool_request>>

Upload == UploadStart \/ UploadValidate \/ UploadNormalize \/ UploadAnonymize
            \/ UploadPersist \/ UploadRecord

(***************************************************************************)
(* tools.py: process_photo_tool.  It runs from its start to the provider   *)
(* request without yielding (get_image_for_analysis awaits nothing), waits *)
(* for the reply, and then runs to its response, commit included.          *)
(***************************************************************************)
Subjects == {"", "s1", "s2"}
PhotoIds == {None} \cup DOMAIN photos

ToolReplies ==
    {Wrap("json_fence", Obj(Num(23456), Str(<<"H","i","g","h">>), Str(Text(20)), Str(<<"G","o","o","d">>))),
     Wrap("plain", Obj(Num(18200), Str(<<"L","O","W">>), Str(Text(10)), Str(<<"P","O","O","R">>))),
     Wrap("prose", Obj(Num(23456), Str(<<"h","i","g","h">>), Str(Text(20)), Str(<<"G","o","o","d">>)))}

\* image.py 235-260: the stored file, opened and encoded again as JPEG
get_image_for_analysis(file_path) ==
    IF file_path \notin DOMAIN files
    THEN [exc |-> "ImageProcessingError"]
    ELSE [exc |-> "none",
          image_data |-> [format |-> "JPEG", pixels |-> files[file_path].pixels,
                          width |-> files[file_path].width, height |-> files[file_path].height]]

\* the acceptance check with the parser's own minimum for the reasoning
validate_analysis_result_lenient(result) ==
    /\ result.body_fat_percentage \in 50..500
    /\ Len(result.reasoning) >= min_length_reasoning

\* analysis.py 244-261
validate_analysis_result(result) ==
    /\ result.body_fat_percentage \in 50..500
    /\ Len(result.reasoning) >= 20

\* the lookup that finds no analysis
get_by_photo_id_none(photo_id) == {}

\* repository.py 197-200
get_by_photo_id(photo_id) == {a \in DOMAIN analyses : analyses[a].photo_id = photo_id}

\* datetime.now(timezone.utc), in days
utcnow == now

\* tools.py 170-177 and 330-395: the two shapes of the tool's response
ToolError(i, reason) == [tool |-> i, kind |-> "error", error |-> reason]
ToolResult(i, analysis_id, photo_id) ==
    [tool |-> i, kind |-> "analysis", analysis_id |-> analysis_id, photo_id |-> photo_id]

\* the ownership test answering yes for every photo
Owns_anyone(user_id, photo_id) == TRUE

\* tools.py 127-129: the photo row belongs to the user
Owns(user_id, photo_id) == photos[photo_id].user_id = user_id

\* tools.py 116-144: up to the provider request.  get_or_create inserts a
\* user row for an unknown subject; no photo belongs to it, so the call ends
\* in an error and the row is rolled back
ToolBegin(i) ==
    /\ tools[i].pc = "idle"
    /\ \A j \in DOMAIN tools : j < i => tools[j].pc # "idle"
    /\ ~UploadBusy
    /\ \E openai_subject \in Subjects, photo_id \in PhotoIds :
         LET known == {u \in DOMAIN users : users[u].openai_subject = openai_subject}
             user_id == IF known # {} THEN CHOOSE u \in known : TRUE ELSE uuid4(DOMAIN users)
             existing == get_by_photo_id(photo_id)
             img == get_image_for_analysis(photos[photo_id].file_path)
             sent == ( /\ openai_subject # ""
                       /\ photo_id \in DOMAIN photos
                       /\ Owns(user_id, photo_id)
                       /\ existing = {}
                       /\ img.exc = "none" )
         IN  /\ tools' = [tools EXCEPT ![i] =
                    IF sent
                    THEN [pc |-> "await", openai_subject |-> openai_subject,
                          user_id |-> user_id, photo_id |-> photo_id,
                          total_analyses |-> IF known # {} THEN users[user_id].total_analyses
                                             ELSE 0]
                    ELSE [pc |-> "done"]]
             /\ tool_response' =
                    IF sent THEN tool_response
                    ELSE IF openai_subject = "" THEN ToolError(i, <<"INVALID_USER_ID">>)
                    ELSE IF photo_id \notin DOMAIN photos THEN ToolError(i, <<"PHOTO_NOT_FOUND">>)
                    ELSE IF ~Owns(user_id, photo_id)
                    THEN ToolError(i, <<"Photo does not belong to user">>)
                    ELSE IF existing # {} THEN ToolResult(i, CHOOSE a \in existing : TRUE, photo_id)
                    ELSE ToolError(i, <<"Failed to prepare image for analysis">>)
             /\ provider_calls' = IF sent
                                  THEN Append(provider_calls,
                                              [tool |-> i, photo_id |-> photo_id,
                                               image_data |-> img.image_data])
                                  ELSE provider_calls
             /\ tool_request' = IF sent THEN tool_request
                                ELSE [openai_subject |-> openai_subject, photo_id |-> photo_id]
    /\ UNCHANGED <<pureVars, storeVars, files, up, uploads_started, now>>

\* what the provider request ends in: an exception of the client, or a reply text
ProviderRaised(stage, exc, msg) == [raised |-> TRUE, stage |-> stage, exc |-> exc, msg |-> msg]
ProviderOutcomes == {ProviderRaised("create", "APIConnectionError", <<"Connection error.">>)}
                      \cup {[raised |-> FALSE, text |-> t] : t \in ToolReplies}

\* config.py 42: the provider variants and the configured one
Providers == {"openai", "anthropic"}
ai_provider == "openai"

\* str(e)
StrOf(r) == IF "msg" \in DOMAIN r THEN r.msg ELSE <<r.exc>>

\* the handler with a message that leaves the provider out
WrapProviderError_unnamed(name, r) ==
    IF r.status = "raise"
    THEN [status |-> "raise", exc |-> "AIAnalysisError", msg |-> <<"analysis failed", StrOf(r)>>]
    ELSE r

\* analysis.py 125-126, 179-180: except Exception as e: raise AIAnalysisError
WrapProviderError(name, r) ==
    IF r.status = "raise"
    THEN [status |-> "raise", exc |-> "AIAnalysisError", msg |-> <<name, StrOf(r)>>]
    ELSE r

\* the request is built (encode), sent (create) and its first completion
\* extracted (extract); any of the three may raise
RequestOutcome(outcome) ==
    IF outcome.raised
    THEN [status |-> "raise", exc |-> outcome.exc, msg |-> outcome.msg]
    ELSE _parse_ai_response(outcome.text)

\* analysis.py 76-126
_analyze_with_openai(outcome) ==
    WrapProviderError("OpenAI analysis failed", RequestOutcome(outcome))

\* analysis.py 128-180
_analyze_with_anthropic(outcome) ==
    WrapProviderError("Anthropic analysis failed", RequestOutcome(outcome))

\* analysis.py 73-74: except Exception as e: raise AIAnalysisError
WrapAnalysisError(r) ==
    IF r.status = "raise"
    THEN [status |-> "raise", exc |-> "AIAnalysisError", msg |-> <<"AI_ANALYSIS_FAILED", StrOf(r)>>]
    ELSE r

\* analysis.py 45-74: analyze_body_composition
analyze_body_composition(provider, outcome) ==
    WrapAnalysisError(IF provider = "openai" THEN _analyze_with_openai(outcome)
                      ELSE _analyze_with_anthropic(outcome))

(***************************************************************************)
(* analyze_body_composition over both providers, the exceptions of the     *)
(* three request steps, and bounded replies                                *)
(***************************************************************************)
AnalyzeRaises ==
    {ProviderRaised("encode", "TypeError", <<"a bytes-like object is required">>),
     ProviderRaised("create", "APIConnectionError", <<"Connection error.">>),
     ProviderRaised("create", "RateLimitError", <<"Rate limit reached">>),
     ProviderRaised("extract", "IndexError", <<"list index out of range">>),
     ProviderRaised("extract", "AttributeError", << >>)}
AnalyzeDatas == {Obj(p, c, r, q) : p \in {Num(23456), Num(4900), Null},
                                   c \in {Str(<<"H","i","g","h">>), Str(<<"c","e","r","t","a","i","n">>), Null},
                                   r \in {Str(Text(20)), Str(Text(2)), Absent},
                                   q \in {Str(<<"G","o","o","d">>), Num(3000)}}
                  \cup {[t |-> "array"], Null}
AnalyzeOutcomes == AnalyzeRaises \cup {[raised |-> FALSE, text |-> Wrap(w, d)] :
                                          w \in Wrappers, d \in AnalyzeDatas}

InitAnalyze ==
    /\ an \in [pc : {"call"}, provider : Providers, outcome : AnalyzeOutcomes, out : {NoOut}]
    /\ rz = Idle
    /\ pr = Idle
    /\ va = Idle
    /\ SysIdle

AnalyzeBodyComposition ==
    /\ an.pc = "call"
    /\ an' = [an EXCEPT !.pc = "ret",
                        !.out = analyze_body_composition(an.provider, an.outcome)]
    /\ UNCHANGED <<rz, pr, va>>
    /\ UNCHANGED sysVars

NextAnalyze == AnalyzeBodyComposition

SpecAnalyze == InitAnalyze /\ [][NextAnalyze]_vars

\* the insert without the unique constraint on photo_id
Insertable_nounique(t) ==
    /\ t.photo_id \in DOMAIN photos
    /\ t.user_id \in DOMAIN users

\* the insert of the Analysis row passes the constraints of the table: the
\* photo and the user exist (foreign keys) and the photo has no analysis yet
\* (unique photo_id)
Insertable(t) ==
    /\ t.photo_id \in DOMAIN photos
    /\ t.user_id \in DOMAIN users
    /\ get_by_photo_id(t.photo_id) = {}

\* tools.py 146-147 and repository.py 202-225, 61-72, database.py 77-80: the
\* outcome of the steps after the provider request
FinishOutcome(t, r, db_ok) ==
    IF r.status = "raise" THEN [kind |-> "error", error |-> r.msg]
    ELSE IF ~validate_analysis_result(r.result)
    THEN [kind |-> "error", error |-> <<"AI analysis produced invalid results">>]
    ELSE IF ~Insertable(t)
    THEN [kind |-> "error", error |-> <<"Analysis already exists for this photo">>]
    ELSE IF ~db_ok THEN [kind |-> "error", error |-> <<"DATABASE_ERROR">>]
    ELSE [kind |-> "analysis"]

\* ToolFinish committing the new rows although the invocation failed
ToolFinish_keep(i, r, db_ok) ==
    LET t == tools[i]
    IN  /\ tools' = [tools EXCEPT ![i] = [pc |-> "done"]]
        /\ tool_response' = ToolError(i, <<"DATABASE_ERROR">>)
        /\ analyses' = analyses @@ (uuid4(DOMAIN analyses) :>
                                [user_id |-> t.user_id, photo_id |-> t.photo_id,
                                 body_fat_percentage |-> 235,
                                 confidence |-> "HIGH",
                                 photo_quality |-> "GOOD",
                                 reasoning |-> Text(20),
                                 created_at |-> utcnow])
        /\ users' = users
        /\ provider_calls' = provider_calls
        /\ tool_request' = [openai_subject |-> t.openai_subject, photo_id |-> t.photo_id]

\* ToolFinish sending the request again after a failure
ToolFinish_retry(i, r, db_ok) ==
    LET t == tools[i]
    IN  /\ tools' = tools
        /\ tool_response' = tool_response
        /\ analyses' = analyses
        /\ users' = users
        /\ provider_calls' = Append(provider_calls, provider_calls[Len(provider_calls)])
        /\ tool_request' = tool_request

\* tools.py 146-177: the result is validated, the analysis row inserted, the
\* user's statistics updated from the row loaded at the start, all committed;
\* on any failure the transaction is rolled back and an error returned
ToolFinish(i, r, db_ok) ==
    LET t == tools[i]
        o == FinishOutcome(t, r, db_ok)
    IN  /\ tools' = [tools EXCEPT ![i] = [pc |-> "done"]]
        /\ tool_response' = IF o.kind = "error" THEN ToolError(i, o.error)
                            ELSE ToolResult(i, uuid4(DOMAIN analyses), t.photo_id)
        /\ analyses' = IF o.kind = "analysis"
                       THEN analyses @@ (uuid4(DOMAIN analyses) :>
                                [user_id |-> t.user_id, photo_id |-> t.photo_id,
                                 body_fat_percentage |-> r.result.body_fat_percentage,
                                 confidence |-> r.result.confidence,
                                 photo_quality |-> r.result.photo_quality,
                                 reasoning |-> r.result.reasoning,
                                 created_at |-> utcnow])
                       ELSE analyses
        /\ users' = IF o.kind = "analysis"
                    THEN [users EXCEPT ![t.user_id] =
                             [@ EXCEPT !.last_analysis_at = utcnow,
                                       !.total_analyses = t.total_analyses + 1]]
                    ELSE users
        /\ provider_calls' = provider_calls
        /\ tool_request' = [openai_subject |-> t.openai_subject, photo_id |-> t.photo_id]

\* tools.py 145-177: the provider request ends and the tool runs to its
\* response; the database may fail at the insert, the update or the commit
ToolReply(i) ==
    /\ tools[i].pc = "await"
    /\ ~UploadBusy
    /\ \E outcome \in ProviderOutcomes, db_ok \in BOOLEAN :
          ToolFinish(i, analyze_body_composition(ai_provider, outcome), db_ok)
    /\ UNCHANGED <<pureVars, photos, files, up, uploads_started, now>>

Tool == \E i \in DOMAIN tools : ToolBegin(i) \/ ToolReply(i)

\* the rows of a table that do not belong to the given users
RowsOfOthers(rows, gone) == [x \in {y \in DOMAIN rows : rows[y].user_id \notin gone} |-> rows[x]]

\* tools.py 288-327, repository.py 74-86: delete_user_data_tool.  The user
\* row is deleted and the ORM cascade deletes the user's photos and analyses
DeleteUserData ==
    /\ ~UploadBusy
    /\ \E openai_subject \in Subjects, db_ok \in BOOLEAN :
         LET known == {u \in DOMAIN users : users[u].openai_subject = openai_subject}
             deleted == openai_subject # "" /\ known # {} /\ db_ok
         IN  /\ users' = IF deleted THEN [u \in DOMAIN users \ known |-> users[u]] ELSE users
             /\ photos' = IF deleted THEN RowsOfOthers(photos, known) ELSE photos
             /\ analyses' = IF deleted THEN RowsOfOthers(analyses, known) ELSE analyses
             /\ tool_response' =
                    IF openai_subject = "" THEN ToolError(0, <<"Error deleting data", "INVALID_USER_ID">>)
                    ELSE IF known = {} THEN [tool |-> 0, kind |-> "no_data"]
                    ELSE IF ~db_ok THEN ToolError(0, <<"Error deleting data", "DATABASE_ERROR">>)
                    ELSE [tool |-> 0, kind |-> "data_deleted", subject |-> openai_subject]
             /\ tool_request' = [openai_subject |-> openai_subject, photo_id |-> None]
    /\ UNCHANGED <<pureVars, files, provider_calls, up, tools, uploads_started, now>>

(***************************************************************************)
(* tools.py: start_analysis_tool, and the rate limit of the free tier.     *)
(* Time is counted in days.                                                *)
(***************************************************************************)
\* repository.py 108, 113: timedelta(days=7)
week == 7

\* models.py 72-75: what the DateTime(timezone=True) column gives back for a
\* stored last_analysis_at: an aware datetime where the database keeps the
\* offset, a naive one where it does not (SQLite, the default database_url)
StoredDatetime(t, tz_kept) == [value |-> t, aware |-> tz_kept]

\* datetime comparison: an aware and a naive operand raise TypeError
DatetimeLess(a, b) ==
    IF a.aware # b.aware THEN [exc |-> "TypeError"]
    ELSE [exc |-> "none", value |-> a.value < b.value]

\* repository.py 88-114 for a user of the table
check_rate_limit(user, tz_kept) ==
    IF user.is_premium THEN [exc |-> "none", is_allowed |-> TRUE, next_allowed |-> None]
    ELSE IF user.last_analysis_at = None
    THEN [exc |-> "none", is_allowed |-> TRUE, next_allowed |-> None]
    ELSE LET lt == DatetimeLess(StoredDatetime(user.last_analysis_at, tz_kept),
                                [value |-> utcnow - week, aware |-> TRUE])
         IN  IF lt.exc # "none" THEN [exc |-> lt.exc]
             ELSE IF lt.value THEN [exc |-> "none", is_allowed |-> TRUE, next_allowed |-> None]
             ELSE [exc |-> "none", is_allowed |-> FALSE,
                   next_allowed |-> user.last_analysis_at + week]

\* tools.py 7, 63: datetime is the class imported from the datetime module,
\* which has no attribute timezone
datetime_timezone_utc == [exc |-> "AttributeError"]

\* database.py 37-41, 77-83 and tools.py 78: the session has committed (the
\* sessionmaker expires instances on commit) and is closed when user.id is
\* read, so the attribute cannot be loaded
DetachedAttribute(value) == [exc |-> "DetachedInstanceError"]

\* models.py 60-100: the row of a new user
NewUser(openai_subject) ==
    [openai_subject |-> openai_subject, is_premium |-> FALSE,
     last_analysis_at |-> None, total_analyses |-> 0]

\* the user ids that occur anywhere in the system
UserIdsInUse ==
    DOMAIN users \cup {f.owner : f \in DOMAIN files}
                 \cup {tools[i].user_id : i \in {j \in DOMAIN tools : tools[j].pc = "await"}}

\* tools.py 97-101: the generic error response
StartError(reason) == [tool |-> 0, kind |-> "error", error |-> <<"Error starting analysis", reason>>]

\* tools.py 52-101: the response and the committed users
start_analysis_tool(openai_subject, tz_kept) ==
    LET known == {u \in DOMAIN users : users[u].openai_subject = openai_subject}
        user_id == IF known # {} THEN CHOOSE u \in known : TRUE ELSE uuid4(UserIdsInUse)
        user == IF known # {} THEN users[user_id] ELSE NewUser(openai_subject)
        rl == check_rate_limit(user, tz_kept)
        committed == IF known # {} THEN users ELSE users @@ (user_id :> user)
    IN  IF openai_subject = ""
        THEN [users |-> users, response |-> StartError("INVALID_USER_ID")]
        ELSE IF rl.exc # "none"
        THEN [users |-> users, response |-> StartError(rl.exc)]
        ELSE IF ~rl.is_allowed /\ rl.next_allowed # None
        THEN IF datetime_timezone_utc.exc # "none"
             THEN [users |-> users, response |-> StartError(datetime_timezone_utc.exc)]
             ELSE [users |-> committed,
                   response |-> [tool |-> 0, kind |-> "rate_limit_exceeded",
                                 next_allowed |-> rl.next_allowed]]
        ELSE IF DetachedAttribute(user_id).exc # "none"
        THEN [users |-> committed, response |-> StartError(DetachedAttribute(user_id).exc)]
        ELSE [users |-> committed,
              response |-> [tool |-> 0, kind |-> "upload_widget", user_id |-> user_id,
                            outputTemplate |-> "UPLOAD"]]

StartAnalysis ==
    /\ ~UploadBusy
    /\ \E openai_subject \in Subjects, tz_kept \in BOOLEAN :
         /\ users' = start_analysis_tool(openai_subject, tz_kept).users
         /\ tool_response' = start_analysis_tool(openai_subject, tz_kept).response
         /\ tool_request' = [openai_subject |-> openai_subject, photo_id |-> None]
    /\ UNCHANGED <<pureVars, photos, analyses, files, provider_calls, up, tools, uploads_started, now>>

(***************************************************************************)
(* repository.py: the history queries, and the tools that show them        *)
(***************************************************************************)
\* ORDER BY created_at DESC over the given rows: the database leaves the
\* order of rows with equal created_at open
OrderByCreatedDesc(ids) ==
    {q \in [1..Cardinality(ids) -> ids] :
        /\ \A i, j \in DOMAIN q : i # j => q[i] # q[j]
        /\ \A i, j \in DOMAIN q : i < j => analyses[q[i]].created_at >= analyses[q[j]].created_at}

\* repository.py 237-261 without start_date and end_date: the results the
\* query may give; "if limit:" applies LIMIT for a limit other than 0 or None
get_user_history(user_id, limit) ==
    {IF limit # None THEN Prefix(q, limit) ELSE q :
        q \in OrderByCreatedDesc({a \in DOMAIN analyses : analyses[a].user_id = user_id})}

\* repository.py 227-235: .first() of the ordered query
get_latest_for_user(user_id) ==
    IF \A a \in DOMAIN analyses : analyses[a].user_id # user_id THEN {None}
    ELSE {q[1] : q \in OrderByCreatedDesc({a \in DOMAIN analyses : analyses[a].user_id = user_id})}

\* repository.py 54-59 with the commit of the session: the users after
\* get_or_create, and the id of the subject's user among them
get_or_create(openai_subject) ==
    LET known == {u \in DOMAIN users : users[u].openai_subject = openai_subject}
    IN  IF known # {} THEN [users |-> users, user_id |-> CHOOSE u \in known : TRUE]
        ELSE [users |-> users @@ (uuid4(UserIdsInUse) :> NewUser(openai_subject)),
              user_id |-> uuid4(UserIdsInUse)]

MaxLimit == 2
HistoryLimits == 0..MaxLimit

\* tools.py 222-286: view_history_tool
ViewHistory ==
    /\ ~UploadBusy
    /\ \E openai_subject \in Subjects, limit \in HistoryLimits :
         /\ tool_request' = [openai_subject |-> openai_subject, photo_id |-> None, limit |-> limit]
         /\ IF openai_subject = ""
            THEN /\ tool_response' = ToolError(0, <<"Error retrieving history", "INVALID_USER_ID">>)
                 /\ users' = users
            ELSE /\ users' = get_or_create(openai_subject).users
                 /\ \E history \in get_user_history(get_or_create(openai_subject).user_id, limit) :
                       tool_response' =
                          IF history = << >> THEN [tool |-> 0, kind |-> "no_history"]
                          ELSE [tool |-> 0, kind |-> "history", analyses |-> history,
                                total_count |-> Cardinality(
                                    {a \in DOMAIN analyses :
                                        analyses[a].user_id = get_or_create(openai_subject).user_id})]
    /\ UNCHANGED <<pureVars, photos, analyses, files, provider_calls, up, tools, uploads_started, now>>

\* tools.py 180-219: view_latest_results_tool
ViewLatest ==
    /\ ~UploadBusy
    /\ \E openai_subject \in Subjects :
         /\ tool_request' = [openai_subject |-> openai_subject, photo_id |-> None]
         /\ IF openai_subject = ""
            THEN /\ tool_response' = ToolError(0, <<"Error retrieving results", "INVALID_USER_ID">>)
                 /\ users' = users
            ELSE /\ users' = get_or_create(openai_subject).users
                 /\ \E analysis \in get_latest_for_user(get_or_create(openai_subject).user_id) :
                       tool_response' =
                          IF analysis = None THEN [tool |-> 0, kind |-> "no_analyses"]
                          ELSE [tool |-> 0, kind |-> "latest", analysis_id |-> analysis,
                                photo_id |-> analyses[analysis].photo_id]
    /\ UNCHANGED <<pureVars, photos, analyses, files, provider_calls, up, tools, uploads_started, now>>

\* days pass
MaxDay == 8
Tick ==
    /\ \E days \in {1, week} :
         /\ now + days <= MaxDay
         /\ now' = now + days
    /\ UNCHANGED <<pureVars, storeVars, files, provider_calls, up, tools, tool_response,
                   uploads_started, tool_request>>

Init == rz = Idle /\ pr = Idle /\ va = Idle /\ an = Idle /\ SysIdle
Next == Upload \/ Tool
Spec == Init /\ [][Next]_vars

(***************************************************************************)
(* The store after k uploads of user 1 have succeeded (a.PNG, 4000 x 3000, *)
(* no face reported), built with the operators of the upload actions.      *)
(***************************************************************************)
StoredUpload ==
    [x_user_id |-> 1, filename |-> <<"a", ".", "P", "N", "G">>,
     width |-> _resize_if_needed(4000, 3000, max_image_dimension).width,
     height |-> _resize_if_needed(4000, 3000, max_image_dimension).height,
     pixels |-> _anonymize_faces(RawPixels, FALSE, << >>, 0).pixels,
     faces_detected |-> 0, is_anonymized |-> FALSE,
     file_path |-> None, file_size |-> EncodedSize(RawPixels, 0, 0)]

AddStoredAt(s, path) ==
    [files |-> WriteFile(s.files, path, StoredFile(StoredUpload)),
     photos |-> s.photos @@ (uuid4(DOMAIN s.photos) :>
                                PhotoRow([StoredUpload EXCEPT !.file_path = path]))]

RECURSIVE StoreAfter(_)
StoreAfter(k) ==
    IF k = 0 THEN [files |-> << >>, photos |-> << >>]
    ELSE AddStoredAt(StoreAfter(k - 1),
                     NewPath(StoreAfter(k - 1).files, StoredUpload.x_user_id, StoredUpload.filename))

MaxStored == 2
ConcurrentTools == 2

\* the system at rest with k photos stored and n tool slots
SysStoredFor(k, n, is_premium) ==
    /\ users = [u \in {1} |-> [openai_subject |-> "s1", is_premium |-> is_premium,
                                last_analysis_at |-> None, total_analyses |-> 0]]
    /\ photos = StoreAfter(k).photos
    /\ files = StoreAfter(k).files
    /\ analyses = << >>
    /\ provider_calls = << >>
    /\ up = Idle
    /\ tools = [i \in 1..n |-> Idle]
    /\ tool_response = [tool |-> 0, kind |-> "none"]
    /\ uploads_started = 0
    /\ now = 1
    /\ tool_request = NoRequest

SysStored(k, n) == SysStoredFor(k, n, FALSE)

(***************************************************************************)
(* The tools (process_photo_tool, delete_user_data_tool) invoked            *)
(* concurrently over stored photos                                         *)
(***************************************************************************)
InitTools ==
    /\ rz = Idle /\ pr = Idle /\ va = Idle /\ an = Idle
    /\ \E k \in 1..MaxStored : SysStored(k, ConcurrentTools)
NextTools == Tool \/ DeleteUserData
SpecTools == InitTools /\ [][NextTools]_vars

(***************************************************************************)
(* start_analysis_tool and process_photo_tool of a free or premium user    *)
(* over the days                                                           *)
(***************************************************************************)
InitRate ==
    /\ rz = Idle /\ pr = Idle /\ va = Idle /\ an = Idle
    /\ \E k \in 1..MaxStored, is_premium \in BOOLEAN : SysStoredFor(k, ConcurrentTools, is_premium)
NextRate == Tool \/ StartAnalysis \/ ViewHistory \/ ViewLatest \/ Tick
SpecRate == InitRate /\ [][NextRate]_vars

(***************************************************************************)
(* Uploads into a directory that holds earlier uploads                     *)
(***************************************************************************)
InitUploads ==
    /\ rz = Idle /\ pr = Idle /\ va = Idle /\ an = Idle
    /\ \E k \in 0..MaxStored : SysStored(k, MaxTools)
NextUploads == Upload
SpecUploads == InitUploads /\ [][NextUploads]_vars

(***************************************************************************)
(* Properties                                                              *)
(***************************************************************************)
Max2(a, b) == IF a >= b THEN a ELSE b
Min2(a, b) == IF a <= b THEN a ELSE b
Abs(x) == IF x < 0 THEN 0 - x ELSE x

SameLetter(a, b) ==
    a = b \/ \E k \in 1..Len(LowerLetters) : {a, b} = {LowerLetters[k], UpperLetters[k]}

SameIgnoringCase(s, u) == Len(s) = Len(u) /\ \A i \in 1..Len(s) : SameLetter(s[i], u[i])

\* the name ends in a dot-extension of the allowed set, letter case aside,
\* with at least one character of the same path component before the dot
HasAllowedExtension(fn) ==
    \E e \in allowed_extensions :
        /\ Len(fn) > Len(e)
        /\ fn[Len(fn) - Len(e)] # "/"
        /\ SameIgnoringCase(SubSeq(fn, Len(fn) - Len(e) + 1, Len(fn)), e)

\* the upload fails one of the three validation checks
FailsValidation(nbytes, filename, decodable) ==
    nbytes > max_upload_size \/ ~HasAllowedExtension(filename) \/ ~decodable

\* every block the detector reported is blurred in the stored file
StoredFileBlurred == \A c \in up.reported : files[up.file_path].pixels[c] = "blur"

\* C1: whenever the detector reported regions, every reported region is
\* blurred in the file save_and_process_image has written, also when the
\* blur/paste step failed for a region; and every image sent to the provider
\* is the re-encoding of a stored file.
C1_ReportedRegionsBlurredBeforeStored ==
    /\ (up.pc = "record" /\ up.detector = "reported" /\ up.nregions >= 1) => StoredFileBlurred
    /\ \A n \in 1..Len(provider_calls) :
         \E path \in DOMAIN files :
            provider_calls[n].image_data = get_image_for_analysis(path).image_data

\* C2: when the face detector raises, _anonymize_faces returns count 0 and
\* the image unmodified, the stage lets no exception escape (the upload goes
\* on to the write), and the written file holds the original pixels with
\* faces_detected = 0 and is_anonymized = false in the returned tuple.
C2_DetectorFailureIsNonFatal ==
    /\ [](up.pc \in {"persist", "record"} /\ up.detector = "raised" =>
            /\ up.faces_detected = 0
            /\ ~up.is_anonymized
            /\ up.pixels = RawPixels)
    /\ [](up.pc = "record" /\ up.detector = "raised" =>
            /\ up.file_path \in DOMAIN files
            /\ files[up.file_path].pixels = RawPixels)
    /\ [][up.pc = "detect" /\ up' # up => up'.pc = "persist"]_vars
    /\ [][up.pc = "persist" /\ up' # up => up'.pc = "record"]_vars

C2_Witness ==
    /\ up.pc = "record" /\ up.detector = "raised"
    /\ up.file_path \in DOMAIN files
    /\ up.faces_detected = 0 /\ ~up.is_anonymized

\* C3: when the detector reports N regions (N >= 0), the tuple returned by
\* save_and_process_image has faces_detected = N and is_anonymized = (N > 0),
\* and every one of the N regions is blurred in the image.
C3_CountAndBlurAllRegions ==
    (up.pc = "record" /\ up.detector = "reported") =>
        /\ up.faces_detected = up.nregions
        /\ up.is_anonymized = (up.nregions > 0)
        /\ StoredFileBlurred

\* C4: an upload that fails validation is answered with the processing error
\* at the validation step itself: no file is written, no Photo row is created
\* and no provider request is made; the later stages are entered by valid
\* uploads only.
C4_InvalidUploadLeavesNoTrace ==
    /\ [][(up.pc = "read" /\ FailsValidation(up.nbytes, up.filename, up.decodable) /\ up' # up) =>
            /\ up'.pc = "failed"
            /\ up'.response.code = 400
            /\ up'.response.exc = "ImageProcessingError"
            /\ files' = files
            /\ photos' = photos
            /\ provider_calls' = provider_calls]_vars
    /\ [](up.pc \in {"normalize", "detect", "persist", "record"} =>
            ~FailsValidation(up.nbytes, up.filename, up.decodable))

C4_Witness ==
    /\ up.pc = "failed"
    /\ up.response.exc = "ImageProcessingError"
    /\ up.response.reason = <<"PROCESSING_FAILED", "IMAGE_TOO_LARGE">>
    /\ files = << >> /\ photos = << >> /\ provider_calls = << >>

\* C5: the validation stage accepts an upload iff its length is at most
\* max_upload_size, its extension is allowed (letter case aside) and its
\* bytes decode; it reports the first failing check in the order size,
\* extension, decodability; and every failure is an ImageProcessingError.
C5_ValidationOrderAndBoundary ==
    va.pc = "ret" =>
        LET too_large == va.nbytes > max_upload_size
            bad_ext   == ~HasAllowedExtension(va.filename)
        IN  /\ va.out.status = "ok" <=> ~FailsValidation(va.nbytes, va.filename, va.decodable)
            /\ va.out.status # "ok" => va.out.status = "raise" /\ va.out.exc = "ImageProcessingError"
            /\ too_large => va.out.msg = <<"PROCESSING_FAILED", "IMAGE_TOO_LARGE">>
            /\ (~too_large /\ bad_ext) => va.out.msg = <<"PROCESSING_FAILED", "INVALID_IMAGE_FORMAT">>
            /\ (~too_large /\ ~bad_ext /\ ~va.decodable) =>
                   va.out.msg = <<"PROCESSING_FAILED", "Invalid or corrupted image file">>
            /\ va.nbytes = max_upload_size + 1 => va.out.status = "raise"
            /\ (va.nbytes = max_upload_size /\ ~bad_ext /\ va.decodable) => va.out.status = "ok"

C5_Witness ==
    /\ va.pc = "ret"
    /\ va.nbytes = max_upload_size
    /\ va.filename = <<"a", ".", "P", "N", "G">>
    /\ va.decodable
    /\ va.out.status = "ok"

\* C6: the size returned by _resize_if_needed has its longer edge <= max_dim;
\* after a resize the longer edge is exactly max_dim and the shorter edge is
\* less than one pixel away from shorter * max_dim / longer.
C6_ResizeWithinOnePixel ==
    (rz.pc = "ret" /\ rz.out.status = "ok") =>
        LET longer_in   == Max2(rz.width, rz.height)
            shorter_in  == Min2(rz.width, rz.height)
            longer_out  == Max2(rz.out.width, rz.out.height)
            shorter_out == Min2(rz.out.width, rz.out.height)
        IN  /\ longer_out <= rz.max_dim
            /\ rz.out.resized =>
                 /\ longer_out = rz.max_dim
                 /\ Abs(shorter_out * longer_in - shorter_in * rz.max_dim) < longer_in

\* C7: _resize_if_needed never upscales: an image within max_dim on both
\* edges comes back unchanged, and no returned edge exceeds the input edge.
C7_NeverUpscales ==
    rz.pc = "ret" =>
        /\ (rz.width <= rz.max_dim /\ rz.height <= rz.max_dim) =>
               /\ rz.out.status = "ok"
               /\ ~rz.out.resized
               /\ rz.out.width = rz.width /\ rz.out.height = rz.height
        /\ rz.out.status = "ok" =>
               /\ rz.out.width <= rz.width
               /\ rz.out.height <= rz.height

C7_Witness ==
    /\ rz.pc = "ret" /\ rz.out.status = "ok" /\ rz.out.resized
    /\ rz.out.width < rz.width /\ rz.out.height < rz.height

\* the percentage literal of the reply, in thousandths (-1: not a number)
PctLiteral(data) ==
    LET p == data.f.body_fat_percentage
    IN  IF p.t = "num" THEN p.n
        ELSE IF p = Str(<<"2", "3", ".", "5">>) THEN 23500
        ELSE -1

RaisedAnalysisError(out) == out.status = "raise" /\ out.exc = "AIAnalysisError"

\* C8: _parse_ai_response constructs a result only from a percentage within
\* 5.0..50.0 inclusive; every percentage outside the range makes it raise the
\* analysis-failure error (no clamping).
C8_OutOfRangeRaisesAnalysisError ==
    (pr.pc = "ret" /\ pr.data.t = "object") =>
        /\ pr.out.status = "ok" => PctLiteral(pr.data) \in 5000..50000
        /\ (pr.data.f.body_fat_percentage.t = "num" /\ PctLiteral(pr.data) \notin 5000..50000)
               => RaisedAnalysisError(pr.out)

\* C9: every accepted result stores the percentage rounded to one decimal
\* place (23.456 is stored as 23.5) and the stored value is within 5.0..50.0.
C9_StoredRoundedInRange ==
    (pr.pc = "ret" /\ pr.out.status = "ok") =>
        LET n == PctLiteral(pr.data)
            t == pr.out.result.body_fat_percentage
        IN  /\ 100 * t - n \in -50..50
            /\ t \in 50..500
            /\ n = 23456 => t = 235

C9_Witness ==
    /\ pr.pc = "ret" /\ pr.out.status = "ok"
    /\ PctLiteral(pr.data) = 23456
    /\ pr.out.result.body_fat_percentage = 235

KnownLabel(enum, v) == v.t = "str" /\ \E k \in DOMAIN enum : SameIgnoringCase(v.s, enum[k])
UnknownLabel(enum, v) == v.t = "str" /\ ~\E k \in DOMAIN enum : SameIgnoringCase(v.s, enum[k])

\* C10: the confidence and photo_quality labels are matched to their enums
\* regardless of letter case, and a label outside the enum makes
\* _parse_ai_response raise the analysis-failure error.
C10_LabelsCaseInsensitive ==
    (pr.pc = "ret" /\ pr.data.t = "object") =>
        LET f == pr.data.f
        IN  /\ pr.out.status = "ok" =>
                 /\ f.confidence.t = "str" /\ f.photo_quality.t = "str"
                 /\ SameIgnoringCase(f.confidence.s, ConfidenceLevel[pr.out.result.confidence])
                 /\ SameIgnoringCase(f.photo_quality.s, PhotoQuality[pr.out.result.photo_quality])
            /\ ( /\ pr.wrap \in {"plain", "json_fence", "bare_fence"}
                 /\ PctLiteral(pr.data) \in 5000..50000
                 /\ KnownLabel(ConfidenceLevel, f.confidence)
                 /\ KnownLabel(PhotoQuality, f.photo_quality)
                 /\ f.reasoning.t = "str" /\ Len(f.reasoning.s) >= 10 ) => pr.out.status = "ok"
            /\ UnknownLabel(ConfidenceLevel, f.confidence) => RaisedAnalysisError(pr.out)
            /\ UnknownLabel(PhotoQuality, f.photo_quality) => RaisedAnalysisError(pr.out)

\* the same result: the same AIAnalysisResult, or the same exception type
SameResult(a, b) ==
    /\ a.status = b.status
    /\ a.status = "ok" => a.result = b.result
    /\ a.status = "raise" => a.exc = b.exc

\* C11: for every JSON object text J, _parse_ai_response gives for J inside
\* a fence (tagged json, tagged with another language name, or bare) the
\* result it gives for J alone, and fence stripping leaves a reply without
\* fences as it is.
C11_FenceWrappingIsTransparent ==
    (pr.pc = "ret" /\ pr.data.t = "object") =>
        /\ pr.wrap \in {"json_fence", "bare_fence", "tagged_fence"} =>
               SameResult(pr.out, _parse_ai_response(Wrap("plain", pr.data)))
        /\ pr.wrap = "plain" => StripFences(pr.response_text) = pr.response_text

\* C12: every reply that yields no result makes _parse_ai_response raise
\* AIAnalysisError, and the message carries the first RawPrefix characters
\* of the raw reply and no more.
C12_EveryFailureIsAnalysisError ==
    (pr.pc = "ret" /\ pr.out.status # "ok") =>
        /\ RaisedAnalysisError(pr.out)
        /\ pr.out.msg = Prefix(pr.response_text, RawPrefix)
ProviderLabel(provider) ==
    IF provider = "openai" THEN "OpenAI analysis failed" ELSE "Anthropic analysis failed"

\* C16: for both providers, an exception raised while the request is built,
\* sent, or its first completion extracted (and any failure of the parser)
\* leaves analyze_body_composition as AIAnalysisError; the message names the
\* provider and contains the message of the underlying exception.
C16_ProviderErrorsWrapped ==
    an.pc = "ret" =>
        /\ an.out.status \in {"ok", "raise"}
        /\ an.outcome.raised => an.out.status = "raise"
        /\ an.out.status = "raise" =>
              /\ an.out.exc = "AIAnalysisError"
              /\ an.out.msg[1] = "AI_ANALYSIS_FAILED"
              /\ an.out.msg[2][1] = ProviderLabel(an.provider)
              /\ an.outcome.raised => an.out.msg[2][2] = an.outcome.msg

C16_Witness ==
    /\ an.pc = "ret" /\ an.provider = "anthropic"
    /\ an.outcome.raised /\ an.outcome.stage = "extract"
    /\ an.out.status = "raise" /\ an.out.exc = "AIAnalysisError"
    /\ an.out.msg = <<"AI_ANALYSIS_FAILED", <<"Anthropic analysis failed", <<"list index out of range">>>>>>
InvalidResults == <<"AI analysis produced invalid results">>

\* C13: no Analysis row holds a reasoning shorter than 20 characters or a
\* percentage outside 5.0..50.0; an invocation that ends with the
\* invalid-results error has created no Analysis row and has left the user's
\* last_analysis_at and total_analyses as they were.
C13_UnacceptableResultNeverPersisted ==
    /\ [](\A a \in DOMAIN analyses :
             /\ Len(analyses[a].reasoning) >= 20
             /\ analyses[a].body_fat_percentage \in 50..500)
    /\ [][\A i \in DOMAIN tools :
             ( /\ tools[i].pc = "await" /\ tools'[i].pc = "done"
               /\ tool_response'.kind = "error"
               /\ tool_response'.error = InvalidResults )
             => analyses' = analyses /\ users' = users]_vars

C13_Witness ==
    /\ tool_response.kind = "error"
    /\ tool_response.error = InvalidResults
    /\ Len(provider_calls) = 1
    /\ analyses = << >>
    /\ 1 \in DOMAIN users
    /\ users[1].total_analyses = 0 /\ users[1].last_analysis_at = None

\* C14: under every interleaving of process_photo_tool invocations the store
\* holds at most one Analysis row per photo, and no step changes an Analysis
\* row that exists.
C14_OneAnalysisPerPhoto ==
    /\ [](\A a, b \in DOMAIN analyses :
             analyses[a].photo_id = analyses[b].photo_id => a = b)
    /\ [][\A a \in DOMAIN analyses :
             a \in DOMAIN analyses' => analyses'[a] = analyses[a]]_vars

\* two invocations for the same photo both passed the existing-analysis test;
\* one stored its analysis and the other was refused by the unique constraint
C14_Witness ==
    /\ \A i \in DOMAIN tools : tools[i].pc = "done"
    /\ Len(provider_calls) >= 2
    /\ provider_calls[1].photo_id = provider_calls[2].photo_id
    /\ Cardinality(get_by_photo_id(provider_calls[1].photo_id)) = 1
    /\ tool_response.kind = "error"
    /\ tool_response.error = <<"Analysis already exists for this photo">>

C17_FailureIsTerminalAndRolledBack ==
    [][\A i \in DOMAIN tools :
          (tools[i].pc # "done" /\ tools'[i].pc = "done") =>
             /\ tool_response'.tool = i
             /\ \/ /\ tool_response'.kind = "error"
                   /\ DOMAIN tool_response' = {"tool", "kind", "error"}
                   /\ analyses' = analyses
                   /\ users' = users
                \/ /\ tool_response'.kind = "analysis"
                   /\ tool_response'.analysis_id \in DOMAIN analyses']_vars

C17_Witness ==
    /\ tool_response.kind = "error"
    /\ tool_response.error = <<"DATABASE_ERROR">>
    /\ analyses = << >>
    /\ 1 \in DOMAIN users
    /\ users[1].total_analyses = 0 /\ users[1].last_analysis_at = None

\* C18: the file written for a valid upload has a name ending in .jpg and
\* holds a JPEG, and the tuple returned is the path, the scaled width and
\* height, the size on disk, the face count and the anonymized flag.
C18_StoredNameEndsInJpg ==
    up.pc = "record" =>
        /\ up.file_path \in DOMAIN files
        /\ up.file_path.ext = <<".", "j", "p", "g">>
        /\ files[up.file_path].format = "JPEG"
        /\ up.width = files[up.file_path].width /\ up.height = files[up.file_path].height
        /\ up.file_size = EncodedSize(files[up.file_path].pixels, up.width, up.height)
        /\ up.is_anonymized = (up.faces_detected > 0)

\* C19: the path written by an upload is made of the owner, a token that no
\* stored file has, and an allowed extension; it is the path of no file in
\* the directory, and no file of the directory is changed or removed.
C19_DistinctPaths ==
    /\ [][(up.pc = "persist" /\ up' # up) =>
             /\ up'.file_path \notin DOMAIN files
             /\ DOMAIN files' = DOMAIN files \cup {up'.file_path}
             /\ up'.file_path.owner = up.x_user_id
             /\ up'.file_path.token \notin {f.token : f \in DOMAIN files}
             /\ up'.file_path.ext \in allowed_extensions]_vars
    /\ [][\A p \in DOMAIN files : p \in DOMAIN files' /\ files'[p] = files[p]]_vars

C19_Witness ==
    /\ up.pc = "record"
    /\ Cardinality(DOMAIN files) >= 2
    /\ \E p \in DOMAIN files : p # up.file_path /\ p.owner = up.file_path.owner
                                 /\ p.ext = up.file_path.ext

\* C20: after delete_user_data_tool has succeeded, the user of that subject,
\* the user's Photo and Analysis rows and the user's stored files are gone;
\* for a subject without a user the tool reports that there is no data.
C20_DeleteRemovesEverything ==
    /\ [](tool_response.kind = "data_deleted" =>
             /\ \A u \in DOMAIN users : users[u].openai_subject # tool_response.subject
             /\ \A p \in DOMAIN photos : photos[p].user_id \in DOMAIN users
             /\ \A a \in DOMAIN analyses : analyses[a].user_id \in DOMAIN users
             /\ \A f \in DOMAIN files : f.owner \in DOMAIN users)
    /\ [][(tool_response' # tool_response /\ tool_response'.kind = "no_data") =>
             /\ users' = users /\ photos' = photos
             /\ analyses' = analyses /\ files' = files]_vars

(***************************************************************************)
(* Rounding and floor of the scaled edge                                   *)
(***************************************************************************)
\* C24: when _resize_if_needed scales an image down, the shorter edge is
\* shorter * max_dim / longer rounded to the nearest integer (not truncated):
\* it is at most half a pixel away from the exact quotient.
C24_ShorterEdgeRoundedToNearest ==
    (rz.pc = "ret" /\ rz.out.status = "ok" /\ rz.out.resized) =>
        LET longer_in   == Max2(rz.width, rz.height)
            shorter_in  == Min2(rz.width, rz.height)
            shorter_out == Min2(rz.out.width, rz.out.height)
        IN  2 * Abs(shorter_out * longer_in - shorter_in * rz.max_dim) <= longer_in

\* C29: for width, height >= 1 and max_dim >= 1 the call returns (it does not
\* raise) and both returned edges are >= 1, so that an image such as 5000x1
\* never gets a zero edge.
C29_EdgesStayPositive ==
    rz.pc = "ret" =>
        /\ rz.out.status = "ok"
        /\ rz.out.width >= 1
        /\ rz.out.height >= 1

(***************************************************************************)
(* Files and rows of an upload                                             *)
(***************************************************************************)
\* C28: whenever upload_photo has returned or failed, every file in the
\* upload directory is referenced by a committed Photo row: a request that
\* fails after the file was written (X-User-Id names no user, or the insert
\* or commit fails) leaves no file behind.
C28_NoOrphanFiles ==
    ~UploadBusy =>
        \A path \in DOMAIN files : \E p \in DOMAIN photos : photos[p].file_path = path

\* C30: whenever _anonymize_faces returns count 0 the image it returns is
\* pixel-identical to the one it was given, so no partly blurred picture is
\* written or recorded with faces_detected = 0 and is_anonymized = FALSE.
C30_CountZeroMeansUntouched ==
    /\ (up.pc \in {"persist", "record"} /\ up.faces_detected = 0) => up.pixels = RawPixels
    /\ \A p \in DOMAIN photos :
         (photos[p].faces_detected = 0 /\ ~photos[p].is_anonymized) =>
             files[photos[p].file_path].pixels = RawPixels

(***************************************************************************)
(* The user's statistics                                                   *)
(***************************************************************************)
\* C27: in every committed state a user's total_analyses equals the number
\* of Analysis rows of that user; concurrent invocations for different
\* photos of the same user do not lose an increment.
C27_CounterMatchesRows ==
    \A u \in DOMAIN users :
        users[u].total_analyses = Cardinality({a \in DOMAIN analyses : analyses[a].user_id = u})

(***************************************************************************)
(* process_photo_tool: the photo that is analysed already, and the photo   *)
(* of somebody else                                                        *)
(***************************************************************************)
\* the analyses stored for a photo
AnalysesOf(photo_id) == {a \in DOMAIN analyses : analyses[a].photo_id = photo_id}

\* the users registered under a subject
UsersOf(openai_subject) == {u \in DOMAIN users : users[u].openai_subject = openai_subject}

\* C22: process_photo_tool called for a photo that already has an Analysis
\* makes no provider request, creates no row and leaves the users (their
\* last_analysis_at and total_analyses) as they were; called by the photo's
\* owner it returns that stored analysis, itself unchanged.
C22_AnalysedPhotoIsReturnedAsStored ==
    [][\A i \in DOMAIN tools :
          /\ (tools[i].pc = "idle" /\ tools'[i].pc = "await") =>
                AnalysesOf(tools'[i].photo_id) = {}
          /\ ( /\ tools[i].pc = "idle" /\ tools'[i].pc = "done"
               /\ AnalysesOf(tool_request'.photo_id) # {} ) =>
                /\ provider_calls' = provider_calls
                /\ analyses' = analyses
                /\ photos' = photos
                /\ users' = users
                /\ (\E u \in UsersOf(tool_request'.openai_subject) :
                        photos[tool_request'.photo_id].user_id = u) =>
                      /\ tool_response'.kind = "analysis"
                      /\ tool_response'.tool = i
                      /\ tool_response'.photo_id = tool_request'.photo_id
                      /\ tool_response'.analysis_id \in AnalysesOf(tool_request'.photo_id)]_vars

\* the second invocation answered with the analysis the first one stored and
\* made no provider request of its own
C22_Witness ==
    /\ tool_response.kind = "analysis"
    /\ tool_response.photo_id = tool_request.photo_id
    /\ tool_response.analysis_id \in AnalysesOf(tool_request.photo_id)
    /\ \A n \in 1..Len(provider_calls) : provider_calls[n].tool # tool_response.tool
    /\ Len(provider_calls) = 1
    /\ \A u \in DOMAIN users : users[u].total_analyses = 1

\* C23: process_photo_tool never sends to the provider, analyses or returns
\* the analysis of a photo whose user_id differs from the user resolved from
\* the request's openai/subject: called for such a photo it answers with an
\* error and changes neither the store nor the requests made.
C23_OnlyTheOwnersPhotos ==
    [][\A i \in DOMAIN tools :
          /\ (tools[i].pc = "idle" /\ tools'[i].pc = "await") =>
                /\ photos[tools'[i].photo_id].user_id \in UsersOf(tools'[i].openai_subject)
                /\ Len(provider_calls') = Len(provider_calls) + 1
                /\ provider_calls'[Len(provider_calls')].photo_id = tools'[i].photo_id
                /\ provider_calls'[Len(provider_calls')].image_data =
                       get_image_for_analysis(photos[tools'[i].photo_id].file_path).image_data
          /\ ( /\ tools[i].pc # "done" /\ tools'[i].pc = "done"
               /\ tool_response'.kind = "analysis" ) =>
                /\ tool_response'.photo_id = tool_request'.photo_id
                /\ photos[tool_request'.photo_id].user_id \in UsersOf(tool_request'.openai_subject)
                /\ analyses'[tool_response'.analysis_id].user_id
                       \in UsersOf(tool_request'.openai_subject)
          /\ ( /\ tools[i].pc = "idle" /\ tools'[i].pc = "done"
               /\ tool_request'.photo_id \in DOMAIN photos
               /\ photos[tool_request'.photo_id].user_id
                      \notin UsersOf(tool_request'.openai_subject) ) =>
                /\ tool_response'.kind = "error"
                /\ tool_response'.tool = i
                /\ users' = users /\ photos' = photos /\ analyses' = analyses
                /\ files' = files
                /\ provider_calls' = provider_calls]_vars

\* subject s2 asked for a photo of user 1 and was refused
C23_Witness ==
    /\ tool_response.kind = "error"
    /\ tool_response.error = <<"Photo does not belong to user">>
    /\ tool_request.openai_subject = "s2"
    /\ tool_request.photo_id \in DOMAIN photos
    /\ photos[tool_request.photo_id].user_id = 1
    /\ provider_calls = << >>
    /\ analyses = << >>

(***************************************************************************)
(* The free tier's weekly limit                                            *)
(***************************************************************************)
\* C21: for a user who is not premium, no two Analysis rows of that user are
\* created less than 7 days apart, whatever start_analysis_tool and
\* process_photo_tool calls were made; premium users are not limited.
C21_FreeTierOnePerWeek ==
    \A a, b \in DOMAIN analyses :
        ( /\ a # b
          /\ analyses[a].user_id = analyses[b].user_id
          /\ analyses[a].user_id \in DOMAIN users
          /\ ~users[analyses[a].user_id].is_premium ) =>
            Abs(analyses[a].created_at - analyses[b].created_at) >= week

\* the rate-limit decision for the user of a subject, as of this state: a new
\* user, a premium user and a user whose last analysis is more than a week
\* old are allowed
RateAllowed(openai_subject) ==
    \A u \in UsersOf(openai_subject) :
        \/ users[u].is_premium
        \/ users[u].last_analysis_at = None
        \/ users[u].last_analysis_at < now - week

\* a step in which start_analysis_tool answers
StartAnswers ==
    /\ tool_request'.photo_id = None
    /\ tool_request'.openai_subject # ""
    /\ tool_response'.kind \in {"error", "upload_widget", "rate_limit_exceeded"}
    /\ tool_response'.kind = "error" => tool_response'.error[1] = "Error starting analysis"
    /\ \A i \in DOMAIN tools : tools'[i] = tools[i]
    /\ <<tool_response, tool_request, users>>' # <<tool_response, tool_request, users>>

\* C25: the response of start_analysis_tool is determined by the rate-limit
\* check: an allowed user gets the upload widget with the user's id and the
\* upload output template, a user who is not allowed gets rate_limit_exceeded
\* with next_allowed = last_analysis_at + 7 days, and the generic
\* 'Error starting analysis' response is given in neither case.
C25_ResponseFollowsRateLimit ==
    [][StartAnswers =>
          IF RateAllowed(tool_request'.openai_subject)
          THEN /\ tool_response'.kind = "upload_widget"
               /\ tool_response'.user_id \in DOMAIN users'
               /\ users'[tool_response'.user_id].openai_subject = tool_request'.openai_subject
               /\ tool_response'.outputTemplate = "UPLOAD"
          ELSE /\ tool_response'.kind = "rate_limit_exceeded"
               /\ \E u \in UsersOf(tool_request'.openai_subject) :
                     tool_response'.next_allowed = users[u].last_analysis_at + week]_vars

(***************************************************************************)
(* The history                                                             *)
(***************************************************************************)
\* the analyses of the user registered under a subject
AnalysesOfSubject(openai_subject) ==
    {a \in DOMAIN analyses : analyses[a].user_id \in UsersOf(openai_subject)}

\* C26: get_user_history(user, limit = n), n >= 0, returns analyses of that
\* user only, ordered from the most recent to the oldest by created_at, and
\* at most n of them; get_latest_for_user returns a most recent analysis of
\* the user, or None when the user has none.
C26_HistoryIsOwnOrderedAndLimited ==
    [][ /\ ( /\ tool_response'.kind = "history"
             /\ <<tool_response, tool_request>>' # <<tool_response, tool_request>> ) =>
              LET h == tool_response'.analyses
              IN  /\ \A i \in DOMAIN h : h[i] \in AnalysesOfSubject(tool_request'.openai_subject)
                  /\ \A i, j \in DOMAIN h :
                        i < j => analyses[h[i]].created_at >= analyses[h[j]].created_at
                  /\ Len(h) <= tool_request'.limit
        /\ ( /\ tool_response'.kind \in {"latest", "no_analyses"}
             /\ <<tool_response, tool_request>>' # <<tool_response, tool_request>> ) =>
              IF AnalysesOfSubject(tool_request'.openai_subject) = {}
              THEN tool_response'.kind = "no_analyses"
              ELSE /\ tool_response'.kind = "latest"
                   /\ tool_response'.analysis_id \in AnalysesOfSubject(tool_request'.openai_subject)
                   /\ \A a \in AnalysesOfSubject(tool_request'.openai_subject) :
                         analyses[tool_response'.analysis_id].created_at >= analyses[a].created_at ]_vars

====
